---- MODULE Spec2Model ----
(***************************************************************************)
(* The barcode scanner of erpnext.utils.BarcodeScanner                     *)
(* (src/erpnext/manufacturing/doctype/job_card/job_card.js, lines 836 to   *)
(* 1398): process_scan, update_table, the serial field-write pipeline,     *)
(* set_item with its three quantity modes, the scan dialog and the row     *)
(* matcher get_row_to_modify_on_scan.                                      *)
(*                                                                         *)
(* JavaScript runs one macrotask at a time.  An action of this module is   *)
(* one macrotask: a callback together with every promise continuation it   *)
(* runs before it awaits something that is not yet settled.  A             *)
(* frappe.model.set_value assigns the document field at the call and       *)
(* settles later (its triggers run asynchronously), so a write is applied  *)
(* in the action that begins it and is "in flight" until WriteDone.        *)
(***************************************************************************)
EXTENDS Integers, Sequences, FiniteSets, TLC

\* Number of scans the operator makes on the form (process_scan calls with input).
MaxScans == 2
\* Number of barcodes the operator scans inside one scan dialog.
MaxDialogScans == 1

Slots == 1..MaxScans

NL == "\n"
NoSerial == <<>>
SerialA == <<"1", "2">>
SerialB == <<"1">>

\* The values the operator types into the quantity prompt and the dialog's
\* "Quantity to Scan" field.
PromptValues == {1, 2}
DialogQtys == {2}

(***************************************************************************)
(* The scan API (erpnext.stock.utils.scan_barcode), an external service:   *)
(* a fixed catalogue from the scanned text to the dictionary of            *)
(* job_card.js lines 865 to 873.  A missing key is "" (NoSerial for a      *)
(* serial number); has_data = FALSE is the empty dictionary.               *)
(***************************************************************************)
NoData ==
    [has_data |-> FALSE, item_code |-> "", barcode |-> "", batch_no |-> "",
     serial_no |-> NoSerial, uom |-> "", warehouse |-> "", default_warehouse |-> "",
     has_batch_no |-> FALSE, has_serial_no |-> FALSE]

Inputs == {"BC-A", "LOT1", "SN12", "SN1", "WH1", "??"}

ScanApi(input) ==
    CASE input = "BC-A" -> [NoData EXCEPT !.has_data = TRUE, !.item_code = "A",
                                          !.barcode = "BC-A", !.uom = "Box",
                                          !.default_warehouse = "W2",
                                          !.has_batch_no = TRUE]
      [] input = "LOT1" -> [NoData EXCEPT !.has_data = TRUE, !.item_code = "A",
                                          !.batch_no = "LOT1", !.has_batch_no = TRUE]
      [] input = "SN12" -> [NoData EXCEPT !.has_data = TRUE, !.item_code = "A",
                                          !.serial_no = SerialA, !.has_serial_no = TRUE]
      [] input = "SN1"  -> [NoData EXCEPT !.has_data = TRUE, !.item_code = "A",
                                          !.serial_no = SerialB, !.has_serial_no = TRUE]
      [] input = "WH1"  -> [NoData EXCEPT !.has_data = TRUE, !.warehouse = "W1"]
      [] OTHER -> NoData

(***************************************************************************)
(* Order lines.  qty is the row's this.qty_field, max_qty its              *)
(* this.max_qty_field; serial_no is the newline-joined text of the row's   *)
(* serial numbers, kept as a sequence of characters.                       *)
(***************************************************************************)
EmptyRow ==
    [item_code |-> "", batch_no |-> "", serial_no |-> NoSerial, uom |-> "",
     barcode |-> "", warehouse |-> "", qty |-> 0, max_qty |-> 0,
     has_item_scanned |-> FALSE]

\* The child table's fields (frappe.meta.has_field on the grid's doctype).
TableFields == {"batch_no", "serial_no", "uom", "barcode", "warehouse", "max_qty"}

has_field(f) == f \in TableFields

\* String.prototype.includes: needle occurs in hay as a contiguous substring.
Includes(hay, needle) ==
    \E i \in 0..(Len(hay) - Len(needle)) : SubSeq(hay, i + 1, i + Len(needle)) = needle

\* String.prototype.split("\n").
RECURSIVE SplitNL(_)
SplitNL(s) ==
    IF \A i \in DOMAIN s : s[i] # NL THEN <<s>>
    ELSE LET k == CHOOSE i \in DOMAIN s :
                      s[i] = NL /\ \A j \in 1..(i - 1) : s[j] # NL
         IN <<SubSeq(s, 1, k - 1)>> \o SplitNL(SubSeq(s, k + 1, Len(s)))

\* The serial numbers a line holds.
SerialList(s) == IF s = NoSerial THEN <<>> ELSE SplitNL(s)

\* existing + "\n" + serial_no, or serial_no alone (set_serial_no).
JoinSerial(existing, serial_no) ==
    IF existing # NoSerial THEN existing \o <<NL>> \o serial_no ELSE serial_no

VARIABLES
    items,                    \* frm.doc[items_table_name]: the order's lines, in entry order
    last_scanned_warehouse,   \* frm.doc.last_scanned_warehouse ("" when unset)
    has_items,                \* frm.has_items
    cfg,                      \* the constructor's options (lines 852 to 856, 875)
    flags,                    \* frappe.flags.trigger_from_barcode_scanner, .hide_serial_batch_dialog
    scans,                    \* one record per process_scan call: where it is suspended
    dialogs,                  \* the scan dialog each scan opened
    dialog,                   \* this.dialog: the scan whose dialog was created last (0: none)
    remaining_qty,            \* this.remaining_qty
    pos_items,                \* the point-of-sale order's lines (frm.doc.items of the POS invoice)
    freeze_count,             \* frappe.dom.freeze_count: the interaction gate is closed while > 0
    allow_negative_stock,     \* Controller.allow_negative_stock (FALSE also while undefined)
    stock_settings,           \* Stock Settings allow_negative_stock, and whether its fetch arrived
    item_stock_map,           \* Controller.item_stock_map: the item codes it has an entry for
    reserved_serial_nos,      \* what get_pos_reserved_serial_nos answers for the item and warehouse
    customer,                 \* whether frm.doc.customer is set
    current_item,             \* item_details.current_item.name (0: the details panel is closed)
    calls,                    \* one record per on_cart_update call: where it is suspended
    next_name,                \* the name the next added line gets
    write_gate,               \* the values freeze_count had at the line mutations of the last step
    search_value,             \* the text in the selector's search field
    last_search,              \* ItemSelector.last_search: TRUE while the 300 ms timer is pending
    search_index,             \* ItemSelector.search_index[selling_price_list]: term -> items
    selector_items,           \* ItemSelector.items (<<>> also while undefined)
    auto_add_item,            \* ItemSelector.auto_add_item
    requests,                 \* the get_items calls made by filter_items
    issued,                   \* the filter_items call made last: its term and how it was served
    selected,                 \* the item_selected events raised by add_filtered_item_to_cart
    inputs_made               \* number of times the operator has changed the search text

scanner == <<items, last_scanned_warehouse, has_items, cfg, flags, scans, dialogs, dialog,
             remaining_qty>>

cart == <<pos_items, freeze_count, allow_negative_stock, stock_settings, item_stock_map,
          reserved_serial_nos, customer, current_item, calls, next_name, write_gate>>

selector == <<search_value, last_search, search_index, selector_items, auto_add_item,
              requests, issued, selected, inputs_made>>

vars == <<scanner, cart, selector>>

(***************************************************************************)
(* get_row_to_modify_on_scan (lines 1275 to 1314).                         *)
(***************************************************************************)
\* Array.prototype.find over a list of truth values: the first index, 0 for undefined.
RECURSIVE FirstTrue(_, _)
FirstTrue(hits, i) ==
    IF i > Len(hits) THEN 0
    ELSE IF hits[i] THEN i
    ELSE FirstTrue(hits, i + 1)

\* has_warehouse_field ? last_scanned_warehouse || default_warehouse : null
scan_warehouse(data) ==
    IF cfg.has_last_scanned_warehouse /\ has_field("warehouse")
    THEN (IF last_scanned_warehouse # "" THEN last_scanned_warehouse
          ELSE data.default_warehouse)
    ELSE ""

\* matching_row without the batch predicate.
matching_row_no_batch(row, data) ==
    /\ row.item_code = data.item_code
    /\ (data.uom = "" \/ row.uom = data.uom)
    /\ ~row.has_item_scanned
    /\ (~cfg.max_qty_field \/ row.qty < row.max_qty)

\* matching_row without the has_item_scanned predicate.
matching_row_scanned_again(row, data) ==
    LET is_batch_no_scan == data.batch_no # "" /\ has_field("batch_no")
        check_max_qty == cfg.max_qty_field /\ has_field("max_qty")
        has_warehouse_field == cfg.has_last_scanned_warehouse /\ has_field("warehouse")
        warehouse == scan_warehouse(data)
        warehouse_match ==
            IF has_warehouse_field /\ warehouse # "" /\ row.warehouse # ""
            THEN row.warehouse = warehouse
            ELSE TRUE
    IN /\ row.item_code = data.item_code
       /\ (data.uom = "" \/ row.uom = data.uom)
       /\ warehouse_match
       /\ (~is_batch_no_scan \/ row.batch_no = "" \/ row.batch_no = data.batch_no)
       /\ (~check_max_qty \/ row.qty < row.max_qty)

matching_row(row, data) ==
    LET is_batch_no_scan == data.batch_no # "" /\ has_field("batch_no")
        check_max_qty == cfg.max_qty_field /\ has_field("max_qty")
        has_warehouse_field == cfg.has_last_scanned_warehouse /\ has_field("warehouse")
        warehouse == scan_warehouse(data)
        item_match == row.item_code = data.item_code
        batch_match == row.batch_no = "" \/ row.batch_no = data.batch_no
        uom_match == data.uom = "" \/ row.uom = data.uom
        qty_in_limit == row.qty < row.max_qty
        item_scanned == row.has_item_scanned
        warehouse_match ==
            IF has_warehouse_field /\ warehouse # "" /\ row.warehouse # ""
            THEN row.warehouse = warehouse
            ELSE TRUE
    IN /\ item_match
       /\ uom_match
       /\ warehouse_match
       /\ ~item_scanned
       /\ (~is_batch_no_scan \/ batch_match)
       /\ (~check_max_qty \/ qty_in_limit)

\* Array.prototype.findLast in place of find: the last index, 0 for undefined.
RECURSIVE LastTrue(_, _)
LastTrue(hits, i) ==
    IF i < 1 THEN 0
    ELSE IF hits[i] THEN i
    ELSE LastTrue(hits, i - 1)

\* get_row_to_modify_on_scan taking the last matching line instead of the first.
get_row_last_match(data) ==
    LET hits == [i \in 1..Len(items) |-> matching_row(items[i], data)]
        m == LastTrue(hits, Len(hits))
    IN IF m # 0 THEN m
       ELSE FirstTrue([i \in 1..Len(items) |-> items[i].item_code = ""], 1)

\* get_row_to_modify_on_scan without the fallback to an unfilled line.
get_row_no_placeholder(data) ==
    FirstTrue([i \in 1..Len(items) |-> matching_row(items[i], data)], 1)

\* items_table.find(matching_row) || items_table.find((d) => !d.item_code)
get_row_to_modify_on_scan(data) ==
    LET m == FirstTrue([i \in 1..Len(items) |-> matching_row(items[i], data)], 1)
    IN IF m # 0 THEN m
       ELSE FirstTrue([i \in 1..Len(items) |-> items[i].item_code = ""], 1)

\* is_duplicate_serial_no that never reports a duplicate.
is_duplicate_serial_no_never(row, serial_no) == FALSE

\* row[this.serial_no_field]?.includes(serial_no); a scan without a serial number
\* asks for the text "undefined", which no line holds.
is_duplicate_serial_no(row, serial_no) ==
    /\ serial_no # NoSerial
    /\ row.serial_no # NoSerial
    /\ Includes(row.serial_no, serial_no)

(***************************************************************************)
(* The state after the form is loaded and the scanner constructed.         *)
(***************************************************************************)
Line(item_code, batch_no, serial_no, uom, qty, max_qty) ==
    [EmptyRow EXCEPT !.item_code = item_code, !.batch_no = batch_no,
                     !.serial_no = serial_no, !.uom = uom, !.qty = qty,
                     !.max_qty = max_qty]

\* The documents the form is opened on: an empty order; one line of item A below
\* its maximum; a line with another batch before a line with no batch; an
\* inserted, unfilled line (holding the warehouse the grid gave it) before a line
\* of another item; a line with no batch at its maximum before a line with
\* another batch.
InitOrders ==
    { <<>>,
      << Line("A", "", NoSerial, "Box", 1, 2) >>,
      << Line("A", "LOT2", NoSerial, "", 1, 2), Line("A", "", SerialA, "", 1, 3) >>,
      << [EmptyRow EXCEPT !.warehouse = "W2"], Line("B", "", NoSerial, "Box", 2, 2) >>,
      << Line("A", "", NoSerial, "", 2, 2), Line("A", "LOT2", NoSerial, "", 1, 2) >> }

Configs ==
    [prompt_qty : BOOLEAN, dont_allow_new_row : BOOLEAN, max_qty_field : BOOLEAN,
     has_last_scanned_warehouse : BOOLEAN]

NewScan ==
    [pc |-> "new", input |-> "", row |-> 0, matched |-> 0, is_new_row |-> FALSE,
     log |-> <<>>, inflight |-> {}, result |-> "none", alert |-> "none",
     requested |-> 0, confirmed |-> 0]

\* A scan that has left the pipeline: result is the state of process_scan's
\* promise, alert the last message shown.
EndScan(result, alert) ==
    [NewScan EXCEPT !.pc = "done", !.result = result, !.alert = alert]

NoDialog ==
    [open |-> FALSE, fields |-> {}, qty |-> 0, scanned_qty |-> 0, batch_no |-> "",
     serial_no |-> NoSerial, barcode |-> ""]

(***************************************************************************)
(* The point-of-sale cart of erpnext.PointOfSale.Controller                *)
(* (src/unnamed/part_002, lines 652 to 871): on_cart_update with its       *)
(* stock-availability and reserved-serial checks and the interaction gate  *)
(* frappe.dom.freeze / frappe.dom.unfreeze.                                *)
(***************************************************************************)
\* Number of cart events (item clicks and detail-form edits) the operator makes.
MaxCartEvents == 2

CartSlots == 1..MaxCartEvents

\* The value of an arithmetic expression over an undefined operand.
NaN == -1

\* The items the item selector offers (the data attributes of a tile, lines 1249 to 1268):
\* a plain item, an item found by one serial number and by another, an item without a
\* price.
SelectorItems ==
    { [name |-> 0, item_code |-> "X", serial_no |-> NoSerial, rate |-> 10],
      [name |-> 0, item_code |-> "S", serial_no |-> SerialB, rate |-> 10],
      [name |-> 0, item_code |-> "S", serial_no |-> SerialA, rate |-> 10],
      [name |-> 0, item_code |-> "F", serial_no |-> NoSerial, rate |-> 0] }

\* The item a detail-form edit names: the line being edited (lines 381 to 392).
FormItem(name) == [name |-> name, item_code |-> "", serial_no |-> NoSerial, rate |-> 0]

\* Quantities the operator types into the detail form.
FormQtys == {"0", "3"}

\* Available quantities the server reports, in halves of a stock unit (0, 0.5 and 5).
AvailableQtys == {0, 1, 10}

\* The message of get_stock_availability: [available_qty, is_stock_item,
\* is_negative_stock_allowed] (lines 804 to 807).
Responses ==
    [available_qty : AvailableQtys, is_stock_item : BOOLEAN,
     is_negative_stock_allowed : BOOLEAN]

NoResponse == [available_qty |-> 0, is_stock_item |-> FALSE, is_negative_stock_allowed |-> FALSE]

\* conversion_factor of a line add_child has just made: the doctype's default when it has
\* one, undefined otherwise; the item_code trigger fills it in afterwards.
NewRowFactors == {NaN, 1}

\* A line the order holds before the first event: one unit of the plain item.
CartLine ==
    [name |-> 1, item_code |-> "X", qty |-> 1, serial_no |-> NoSerial,
     price_list_rate |-> 10, conversion_factor |-> 1]

InitCarts == { <<>>, <<CartLine>> }

NewCall ==
    [pc |-> "new", field |-> "", value |-> 0, item |-> FormItem(0), row |-> 0,
     existed |-> FALSE, from_selector |-> FALSE, item_code |-> "", qty_needed |-> 0,
     resp |-> NoResponse, outcome |-> "none", promise |-> "none"]

\* The cart before any event, as the scanner's specification fixes it.  The document the
\* scanner works on is new: no customer has been chosen (the scanner never reads it).
(***************************************************************************)
(* The item selector of the point of sale (erpnext.PointOfSale.ItemSelector,*)
(* src/unnamed/part_002 from line 920): the search field, its 300 ms       *)
(* timer, filter_items with its memo of answers, and the automatic add of  *)
(* a single result.  The get_items call freezes the page (freeze: true);   *)
(* the overlay takes pointer events only, so the operator and the barcode  *)
(* reader can still put text into the focused search field.                *)
(***************************************************************************)
\* Number of times the operator (or the barcode reader) changes the search text.
MaxInputs == 2

\* Number of get_items calls the selector makes.
MaxSearches == 3

SearchSlots == 1..MaxSearches

\* The texts put into the search field.
Terms == {"a", "av", "B", "123"}

\* String.prototype.toLowerCase on the terms.
toLowerCase(term) == IF term = "B" THEN "b" ELSE term

\* What the server's get_items answers for a search term: the items found and whether
\* the term was recognised as a barcode.
get_items(search_term) ==
    CASE search_term = "a"   -> [items |-> <<"apple", "avocado">>, barcode |-> FALSE]
      [] search_term = "av"  -> [items |-> <<"avocado">>, barcode |-> FALSE]
      [] search_term = "b"   -> [items |-> <<"banana">>, barcode |-> FALSE]
      [] search_term = "123" -> [items |-> <<"banana">>, barcode |-> TRUE]
      [] search_term = ""    -> [items |-> <<"apple", "avocado", "banana">>, barcode |-> FALSE]
      [] OTHER -> [items |-> <<>>, barcode |-> FALSE]

NewRequest == [pc |-> "new", search_term |-> ""]

NotIssued == [search_term |-> "", by |-> "none", request |-> 0]

\* The selector after make_dom and load_items_data: nothing searched yet.
SelectorIdle ==
    /\ search_value = ""
    /\ last_search = FALSE
    /\ search_index = {}
    /\ selector_items = <<>>
    /\ auto_add_item = FALSE
    /\ requests = [r \in SearchSlots |-> NewRequest]
    /\ issued = NotIssued
    /\ selected = <<>>
    /\ inputs_made = 0

CartIdle ==
    /\ pos_items = <<>>
    /\ freeze_count = 0
    /\ allow_negative_stock = FALSE
    /\ stock_settings = [allow_negative_stock |-> FALSE, fetched |-> TRUE]
    /\ item_stock_map = {}
    /\ reserved_serial_nos = {}
    /\ customer = FALSE
    /\ current_item = 0
    /\ calls = [c \in CartSlots |-> NewCall]
    /\ next_name = 1
    /\ write_gate = {}

Init ==
    /\ items \in InitOrders
    /\ last_scanned_warehouse = ""
    /\ has_items \in BOOLEAN
    /\ cfg \in Configs
    /\ flags = [trigger_from_barcode_scanner |-> FALSE, hide_serial_batch_dialog |-> FALSE]
    /\ scans = [s \in Slots |-> NewScan]
    /\ dialogs = [s \in Slots |-> NoDialog]
    /\ dialog = 0
    /\ remaining_qty = 0
    /\ CartIdle
    /\ SelectorIdle

Data(s) == ScanApi(scans[s].input)

(***************************************************************************)
(* The field writes of update_table's frappe.run_serially (lines 974 to    *)
(* 988), after set_selector_trigger_flag: 1 set_barcode_uom, 2             *)
(* set_serial_no, 3 set_batch_no, 4 set_barcode, 5 set_warehouse, 6        *)
(* set_item.  A step whose condition is false awaits nothing, so the chain *)
(* runs on to the next step in the same macrotask.                         *)
(***************************************************************************)
StepName == <<"uom", "serial_no", "batch_no", "barcode", "warehouse", "qty">>

StepOf(pc) == CHOOSE k \in 1..6 : StepName[k] = pc

\* The conditions of set_barcode_uom, set_serial_no, set_batch_no, set_barcode,
\* set_warehouse (lines 1213 to 1255); set_item always runs.
StepWrites(k, data) ==
    CASE k = 1 -> data.uom # "" /\ has_field("uom")
      [] k = 2 -> data.serial_no # NoSerial /\ has_field("serial_no")
      [] k = 3 -> data.batch_no # "" /\ has_field("batch_no")
      [] k = 4 -> data.barcode # "" /\ has_field("barcode")
      [] k = 5 -> /\ cfg.has_last_scanned_warehouse
                  /\ last_scanned_warehouse # ""
                  /\ has_field("warehouse")
      [] OTHER -> TRUE

NextStep(after, data) ==
    CHOOSE k \in (after + 1)..6 :
        StepWrites(k, data) /\ \A j \in (after + 1)..(k - 1) : ~StepWrites(j, data)

\* WriteStep with set_serial_no writing nothing.
WriteStep_no_serial(k, row, data) ==
    CASE k = 1 -> [row EXCEPT !.uom = data.uom]
      [] k = 2 -> row
      [] k = 3 -> [row EXCEPT !.batch_no = data.batch_no]
      [] k = 4 -> [row EXCEPT !.barcode = data.barcode]
      [] OTHER -> [row EXCEPT !.warehouse = last_scanned_warehouse]

\* The value frappe.model.set_value assigns in step k.
WriteStep(k, row, data) ==
    CASE k = 1 -> [row EXCEPT !.uom = data.uom]
      [] k = 2 -> [row EXCEPT !.serial_no = JoinSerial(row.serial_no, data.serial_no)]
      [] k = 3 -> [row EXCEPT !.batch_no = data.batch_no]
      [] k = 4 -> [row EXCEPT !.barcode = data.barcode]
      [] OTHER -> [row EXCEPT !.warehouse = last_scanned_warehouse]

\* increment that stores the value instead of adding it to the line's quantity.
increment_overwrite(row, item_code, value) ==
    [row EXCEPT !.item_code = item_code, !.qty = value]

\* set_item's increment (lines 1012 to 1018): item_code and qty in one set_value.
increment(row, item_code, value) ==
    [row EXCEPT !.item_code = item_code, !.qty = row.qty + value]

\* get_fields_for_dialog (lines 1065 to 1146): the dialog prepare_item_for_scan opens.
NewDialog(row, data) ==
    [open |-> TRUE,
     fields |-> {f \in {"batch_no", "serial_no", "barcode"} :
                    \/ f = "batch_no" /\ data.batch_no # ""
                    \/ f = "serial_no" /\ data.serial_no # NoSerial
                    \/ f = "barcode" /\ data.barcode # ""},
     qty |-> IF row.qty # 0 THEN row.qty ELSE 1,
     scanned_qty |-> 1,
     batch_no |-> data.batch_no,
     serial_no |-> data.serial_no,
     barcode |-> data.barcode]

\* The chain of update_table from the step after `after`, for scan s with record
\* sc on the lines its, with frm.has_items = hi and frappe.flags = fl: up to the
\* next awaited write, the quantity prompt or the scan dialog.
Continue(s, sc, its, hi, fl, after) ==
    LET data == ScanApi(sc.input)
        k == NextStep(after, data)
        r == sc.row
    IN IF k < 6
       THEN /\ items' = [its EXCEPT ![r] = WriteStep(k, its[r], data)]
            /\ scans' = [scans EXCEPT ![s] =
                            [sc EXCEPT !.pc = StepName[k],
                                       !.log = Append(sc.log, StepName[k]),
                                       !.inflight = {StepName[k]}]]
            /\ flags' = fl
            /\ UNCHANGED <<dialogs, dialog>>
       ELSE IF cfg.prompt_qty
       THEN /\ items' = its
            /\ scans' = [scans EXCEPT ![s] = [sc EXCEPT !.pc = "prompt", !.inflight = {}]]
            /\ flags' = fl
            /\ UNCHANGED <<dialogs, dialog>>
       ELSE IF hi
       THEN /\ items' = its
            /\ scans' = [scans EXCEPT ![s] = [sc EXCEPT !.pc = "dialog", !.inflight = {}]]
            /\ flags' = fl
            /\ dialogs' = [dialogs EXCEPT ![s] = NewDialog(its[r], data)]
            /\ dialog' = s
       ELSE /\ items' = [its EXCEPT ![r] = increment(its[r], data.item_code, 1)]
            /\ scans' = [scans EXCEPT ![s] =
                            [sc EXCEPT !.pc = "qty", !.log = Append(sc.log, "qty"),
                                       !.inflight = {"qty"}]]
            /\ flags' = [fl EXCEPT !.trigger_from_barcode_scanner = TRUE]
            /\ UNCHANGED <<dialogs, dialog>>

(***************************************************************************)
(* process_scan (lines 878 to 926), up to the scan API call.  The change   *)
(* event hands over the scan field's text and the field is cleared at      *)
(* once, so the field is empty between events and is no variable.  Scan    *)
(* number s takes record s.  On empty input the method returns and its     *)
(* promise is never settled.                                               *)
(***************************************************************************)
\* What the scan field holds when nothing readable was scanned: no text, or white space
\* only (the scan API finds nothing for it).
BlankInputs == {"", " "}

ProcessScan(s, input) ==
    /\ scans[s].pc = "new"
    /\ \A t \in 1..(s - 1) : scans[t].pc # "new"
    /\ scans' = [scans EXCEPT ![s] =
                    IF input = "" THEN EndScan("pending", "none")
                    ELSE [NewScan EXCEPT !.pc = "api", !.input = input,
                                         !.result = "pending"]]
    /\ UNCHANGED <<items, last_scanned_warehouse, has_items, cfg, cart, selector, flags, dialogs, dialog,
                   remaining_qty>>

\* The scan API call fails (scan_api_call, lines 928 to 943): frappe.call's promise
\* is rejected, the .then callback never runs, and process_scan's promise stays
\* pending.
ScanApiFail(s) ==
    /\ scans[s].pc = "api"
    /\ scans' = [scans EXCEPT ![s] = EndScan("pending", "server_error")]
    /\ UNCHANGED <<items, last_scanned_warehouse, has_items, cfg, cart, selector, flags, dialogs, dialog,
                   remaining_qty>>

\* handle_warehouse_scan storing the scan's default warehouse.
handle_warehouse_scan_default(data) == data.default_warehouse

\* handle_warehouse_scan (lines 1343 to 1363): the value frm.set_value writes to
\* last_scanned_warehouse.
handle_warehouse_scan(data) == data.warehouse

\* clear_warehouse_context storing a warehouse.
clear_warehouse_context_other == "W2"

\* clear_warehouse_context (lines 1365 to 1374): frm.set_value writes null.
clear_warehouse_context == ""

\* The operator clicks the clear button that setup_last_scanned_warehouse (lines
\* 1316 to 1341) renders beside a non-empty last_scanned_warehouse.
ClearWarehouseContext ==
    /\ last_scanned_warehouse # ""
    /\ last_scanned_warehouse' = clear_warehouse_context
    /\ UNCHANGED <<items, has_items, cfg, cart, selector, flags, scans, dialogs, dialog, remaining_qty>>

\* reject_new_row ignoring the dont_allow_new_row option.
reject_new_row_never(row) == FALSE

\* if (!row) { if (this.dont_allow_new_row) ... reject (lines 953 to 959).
reject_new_row(row) == row = 0 /\ cfg.dont_allow_new_row

\* set_selector_trigger_flag (lines 994 to 1003).
set_selector_trigger_flag(fl, data) ==
    LET require_selecting_batch == data.has_batch_no /\ data.batch_no = ""
        require_selecting_serial == data.has_serial_no /\ data.serial_no = NoSerial
    IN IF ~(require_selecting_batch \/ require_selecting_serial)
       THEN [fl EXCEPT !.hide_serial_batch_dialog = TRUE]
       ELSE fl

\* no_match accepting a warehouse whatever the document's fields.
no_match_data_only(data) == ~data.has_data

\* !data || Object.keys(data).length === 0 ||
\* (data.warehouse && !this.has_last_scanned_warehouse)   (lines 890 to 894)
no_match(data) ==
    \/ ~data.has_data
    \/ (data.warehouse # "" /\ ~cfg.has_last_scanned_warehouse)

(***************************************************************************)
(* The scan API's callback (lines 888 to 924) and, for an item, the        *)
(* synchronous part of update_table (lines 945 to 990) with the chain up   *)
(* to its first awaited write.                                             *)
(***************************************************************************)
ScanApiReturn(s) ==
    LET data == Data(s)
        sc == scans[s]
        row == get_row_to_modify_on_scan(data)
        is_new_row == row = 0 \/ items[row].item_code = ""
        fl == [flags EXCEPT !.trigger_from_barcode_scanner = TRUE]
    IN
    /\ sc.pc = "api"
    /\ UNCHANGED <<cfg, cart, selector, remaining_qty>>
    /\ IF no_match(data)
       THEN \* "Cannot find Item ... with this Barcode", clean_up, reject
            /\ scans' = [scans EXCEPT ![s] = EndScan("rejected", "not_found")]
            /\ UNCHANGED <<items, last_scanned_warehouse, has_items, flags, dialogs, dialog>>
       ELSE IF data.warehouse # ""
       THEN \* handle_warehouse_scan (lines 1343 to 1363), resolve
            /\ last_scanned_warehouse' = handle_warehouse_scan(data)
            /\ scans' = [scans EXCEPT ![s] = EndScan("resolved", "warehouse_set")]
            /\ UNCHANGED <<items, has_items, flags, dialogs, dialog>>
       ELSE IF reject_new_row(row)
       THEN \* "Maximum quantity scanned for item", clean_up, reject
            /\ scans' = [scans EXCEPT ![s] = EndScan("rejected", "max_qty")]
            /\ flags' = fl
            /\ UNCHANGED <<items, last_scanned_warehouse, has_items, dialogs, dialog>>
       ELSE LET its == IF row = 0 THEN Append(items, EmptyRow) ELSE items
                r == IF row = 0 THEN Len(items) + 1 ELSE row
                hi == IF row = 0 THEN FALSE ELSE has_items
            IN IF is_duplicate_serial_no(its[r], data.serial_no)
               THEN \* "Serial No is already added", clean_up, reject
                    /\ items' = its
                    /\ has_items' = hi
                    /\ scans' = [scans EXCEPT ![s] = EndScan("rejected", "dup_serial")]
                    /\ flags' = fl
                    /\ UNCHANGED <<last_scanned_warehouse, dialogs, dialog>>
               ELSE /\ has_items' = hi
                    /\ UNCHANGED last_scanned_warehouse
                    /\ Continue(s, [sc EXCEPT !.row = r, !.matched = row,
                                              !.is_new_row = is_new_row],
                                its, hi, set_selector_trigger_flag(fl, data), 0)

\* frappe.prompt's callback (lines 1021 to 1023): increment(value).
PromptSubmit(s, value) ==
    LET sc == scans[s]
        r == sc.row
    IN
    /\ sc.pc = "prompt"
    /\ items' = [items EXCEPT ![r] = increment(items[r], Data(s).item_code, value)]
    /\ scans' = [scans EXCEPT ![s] =
                    [sc EXCEPT !.pc = "qty", !.log = Append(sc.log, "qty"),
                               !.inflight = {"qty"}]]
    /\ flags' = [flags EXCEPT !.trigger_from_barcode_scanner = TRUE]
    /\ UNCHANGED <<last_scanned_warehouse, has_items, cfg, cart, selector, dialogs, dialog, remaining_qty>>

\* The operator dismisses the quantity prompt: its callback never runs, and
\* set_item's promise stays pending.
PromptCancel(s) ==
    /\ scans[s].pc = "prompt"
    /\ scans' = [scans EXCEPT ![s] = EndScan("pending", "none")]
    /\ UNCHANGED <<items, last_scanned_warehouse, has_items, cfg, cart, selector, flags, dialogs, dialog,
                   remaining_qty>>

(***************************************************************************)
(* The scan dialog (prepare_item_for_scan, lines 1032 to 1063).  Its       *)
(* handlers read this.dialog, the dialog created last, whichever dialog    *)
(* they belong to.                                                         *)
(***************************************************************************)
DialogStepName == <<"batch_no", "barcode", "serial_no">>
DialogPc == <<"d_batch_no", "d_barcode", "d_serial_no">>

DialogStepOf(pc) == CHOOSE k \in 1..3 : DialogPc[k] = pc

\* The conditions of set_batch_no, set_barcode, set_serial_no on the dialog's values;
\* step 4 is add_child_for_remaining_qty with clean_up.
DialogStepWrites(k, d) ==
    CASE k = 1 -> d.batch_no # "" /\ has_field("batch_no")
      [] k = 2 -> d.barcode # "" /\ has_field("barcode")
      [] k = 3 -> d.serial_no # NoSerial /\ has_field("serial_no")
      [] OTHER -> TRUE

NextDialogStep(after, d) ==
    CHOOSE k \in (after + 1)..4 :
        DialogStepWrites(k, d) /\ \A j \in (after + 1)..(k - 1) : ~DialogStepWrites(j, d)

DialogWriteStep(k, row, d) ==
    CASE k = 1 -> [row EXCEPT !.batch_no = d.batch_no]
      [] k = 2 -> [row EXCEPT !.barcode = d.barcode]
      [] OTHER -> [row EXCEPT !.serial_no = JoinSerial(row.serial_no, d.serial_no)]

\* add_child_for_remaining_qty (lines 1181 to 1211): the new line copies every key
\* of prev_row but name, idx, batch_no, barcode, received_qty, serial_no and
\* has_item_scanned.
add_child_for_remaining_qty(its, prev_row, rem) ==
    IF rem > 0
    THEN Append(its, [EmptyRow EXCEPT !.item_code = prev_row.item_code,
                                      !.uom = prev_row.uom,
                                      !.warehouse = prev_row.warehouse,
                                      !.max_qty = prev_row.max_qty,
                                      !.qty = rem])
    ELSE its

\* A scan whose dialog is open or whose Update chain is running.
DialogLive(sc) ==
    \E t \in Slots : sc[t].pc \in {"dialog", "d_batch_no", "d_barcode", "d_serial_no"}

\* Once no dialog is open and no Update chain is running, nothing reads this.dialog
\* or this.remaining_qty before prepare_item_for_scan and the next Update assign
\* them again: the dead values are put back to their initial ones.
Release(sc, dls, rem) ==
    /\ dialogs' = IF DialogLive(sc) THEN dls ELSE [t \in Slots |-> NoDialog]
    /\ dialog' = IF DialogLive(sc) THEN dialog ELSE 0
    /\ remaining_qty' = IF DialogLive(sc) THEN rem ELSE 0

\* The chain of the Update action's frappe.run_serially (lines 1048 to 1054) from
\* the step after `after`.
ContinueDialog(s, sc, its, dls, rem, after) ==
    LET d == dls[dialog]
        k == NextDialogStep(after, d)
        r == sc.row
        ended == [scans EXCEPT ![s] = EndScan("pending", "none")]
    IN IF k < 4
       THEN /\ items' = [its EXCEPT ![r] = DialogWriteStep(k, its[r], d)]
            /\ scans' = [scans EXCEPT ![s] =
                            [sc EXCEPT !.pc = DialogPc[k],
                                       !.log = Append(sc.log, DialogStepName[k]),
                                       !.inflight = sc.inflight \cup {DialogStepName[k]}]]
            /\ dialogs' = dls
            /\ remaining_qty' = rem
            /\ UNCHANGED dialog
       ELSE /\ items' = add_child_for_remaining_qty(its, its[r], rem)
            /\ scans' = ended
            /\ Release(ended, dls, rem)

\* The dialog's primary action "Update" (lines 1039 to 1057).  The operator may have
\* typed q into the "Quantity to Scan" field of the dialog they see; each dialog is
\* confirmed at most once.  The scan's record keeps the two values of the dialog
\* that was confirmed: requested (its qty) and confirmed (its scanned_qty); the
\* handler itself reads this.dialog, the dialog created last.
DialogUpdate(s) ==
    \E q \in DialogQtys \cup {dialogs[s].qty} :
        LET sc == scans[s]
            r == sc.row
            edited == [dialogs EXCEPT ![s].qty = q]
            d == edited[dialog]
        IN
        /\ sc.pc = "dialog"
        /\ dialogs[s].open
        /\ UNCHANGED <<last_scanned_warehouse, has_items, cfg, cart, selector, flags>>
        /\ ContinueDialog(s,
                          [sc EXCEPT !.log = Append(sc.log, "qty"), !.inflight = {"qty"},
                                     !.requested = edited[s].qty,
                                     !.confirmed = edited[s].scanned_qty],
                          [items EXCEPT ![r] = [items[r] EXCEPT
                                                   !.item_code = Data(s).item_code,
                                                   !.qty = d.scanned_qty,
                                                   !.has_item_scanned = TRUE]],
                          [edited EXCEPT ![dialog].open = FALSE],
                          d.qty - d.scanned_qty,
                          0)

\* hide_dialog marking the line as scanned.
hide_dialog_commit(its, r) == [its EXCEPT ![r].has_item_scanned = TRUE]

\* Closing the dialog only hides it: the primary action of lines 1039 to 1057 does not
\* run, and the lines stay as they are.
hide_dialog(its, r) == its

\* The operator closes the dialog without confirming: set_item's promise stays
\* pending and update_table's chain never resumes.  No message is shown; the record's
\* alert notes the closing.
DialogCancel(s) ==
    LET ended == [scans EXCEPT ![s] = EndScan("pending", "closed")]
    IN
    /\ scans[s].pc = "dialog"
    /\ dialogs[s].open
    /\ scans' = ended
    /\ items' = hide_dialog(items, scans[s].row)
    /\ Release(ended, [dialogs EXCEPT ![s].open = FALSE], remaining_qty)
    /\ UNCHANGED <<last_scanned_warehouse, has_items, cfg, cart, selector, flags>>

\* update_dialog_values (lines 1148 to 1169) on the scan API's answer to a barcode
\* scanned in the dialog of scan s (the onchange of lines 1072 to 1084).
update_dialog_values(d, scanned_item, r) ==
    IF /\ r.item_code = scanned_item
       /\ (d.barcode = r.barcode \/ r.batch_no # "" \/ r.serial_no # NoSerial)
    THEN LET d1 == IF r.batch_no # "" /\ "batch_no" \in d.fields
                   THEN [d EXCEPT !.batch_no = r.batch_no]
                   ELSE d
             listed == SerialList(d1.serial_no)
             \* validate_duplicate_serial_no (lines 1171 to 1179) throws
             duplicate == /\ r.serial_no # NoSerial
                          /\ \E i \in DOMAIN listed : listed[i] = r.serial_no
             d2 == IF r.serial_no # NoSerial /\ "serial_no" \in d1.fields
                   THEN [d1 EXCEPT !.serial_no = d1.serial_no \o <<NL>> \o r.serial_no]
                   ELSE d1
         IN IF duplicate THEN d1
            ELSE [d2 EXCEPT !.scanned_qty = d2.scanned_qty + 1]
    ELSE d

DialogScan(s, input) ==
    /\ scans[s].pc = "dialog"
    /\ dialogs[s].open
    /\ dialogs[dialog].scanned_qty <= MaxDialogScans
    /\ dialogs' = [dialogs EXCEPT ![dialog] =
                      update_dialog_values(dialogs[dialog], Data(s).item_code,
                                           ScanApi(input))]
    /\ UNCHANGED <<items, last_scanned_warehouse, has_items, cfg, cart, selector, flags, scans, dialog,
                   remaining_qty>>

(***************************************************************************)
(* An awaited frappe.model.set_value settles and the chain that awaited it *)
(* runs on.  After set_item's write: show_scan_message, clean_up,          *)
(* revert_selector_flag, resolve (lines 982 to 987, 916 to 919).           *)
(***************************************************************************)
WriteDone(s) ==
    LET sc == scans[s]
    IN
    /\ sc.pc \in {"uom", "serial_no", "batch_no", "barcode", "warehouse", "qty",
                  "d_batch_no", "d_barcode", "d_serial_no"}
    /\ UNCHANGED <<last_scanned_warehouse, has_items, cfg, cart, selector>>
    /\ IF sc.pc = "qty"
       THEN /\ scans' = [scans EXCEPT ![s] =
                            EndScan("resolved",
                                    IF sc.is_new_row THEN "added" ELSE "increased")]
            /\ flags' = [trigger_from_barcode_scanner |-> FALSE,
                         hide_serial_batch_dialog |-> FALSE]
            /\ UNCHANGED <<items, dialogs, dialog, remaining_qty>>
       ELSE IF sc.pc \in {"d_batch_no", "d_barcode", "d_serial_no"}
       THEN /\ UNCHANGED flags
            /\ ContinueDialog(s,
                              [sc EXCEPT !.inflight =
                                  sc.inflight \ {DialogStepName[DialogStepOf(sc.pc)]}],
                              items, dialogs, remaining_qty, DialogStepOf(sc.pc))
       ELSE /\ UNCHANGED remaining_qty
            /\ Continue(s, [sc EXCEPT !.inflight = {}], items, has_items, flags,
                        StepOf(sc.pc))

\* The set_value of the Update action, which nothing awaits, settles.
UnawaitedWriteDone(s) ==
    /\ scans[s].pc \in {"d_batch_no", "d_barcode", "d_serial_no"}
    /\ "qty" \in scans[s].inflight
    /\ scans' = [scans EXCEPT ![s].inflight = @ \ {"qty"}]
    /\ UNCHANGED <<items, last_scanned_warehouse, has_items, cfg, cart, selector, flags, dialogs, dialog,
                   remaining_qty>>

Next ==
    \/ \E s \in Slots, input \in Inputs \cup BlankInputs : ProcessScan(s, input)
    \/ \E s \in Slots : ScanApiReturn(s)
    \/ \E s \in Slots : WriteDone(s)
    \/ \E s \in Slots, value \in PromptValues : PromptSubmit(s, value)
    \/ \E s \in Slots : PromptCancel(s)
    \/ \E s \in Slots, input \in Inputs : DialogScan(s, input)
    \/ \E s \in Slots : DialogUpdate(s)
    \/ \E s \in Slots : DialogCancel(s)
    \/ \E s \in Slots : UnawaitedWriteDone(s)
    \/ \E s \in Slots : ScanApiFail(s)
    \/ ClearWarehouseContext

Spec == Init /\ [][Next]_vars

(***************************************************************************)
(* frappe.dom.freeze and frappe.dom.unfreeze: a counter; the overlay that   *)
(* blocks the operator is shown while the counter is positive.             *)
(***************************************************************************)
freeze(count) == count + 1

unfreeze(count) == IF count = 0 THEN 0 ELSE count - 1

\* index of the line named name in its (0: no such line)
RowIndex(its, name) ==
    IF \E i \in 1..Len(its) : its[i].name = name
    THEN CHOOSE i \in 1..Len(its) :
             /\ its[i].name = name
             /\ \A j \in 1..(i - 1) : its[j].name # name
    ELSE 0

\* get_item_from_frm (lines 746 to 765): the name of the line the event is about, 0 when
\* the order has none.  The selector's tiles carry no batch and one unit of measure.
get_item_from_frm(its, item) ==
    LET hit(i) == IF item.name # 0
                  THEN its[i].name = item.name
                  ELSE /\ its[i].item_code = item.item_code
                       /\ its[i].price_list_rate = item.rate
    IN  IF \E i \in 1..Len(its) : hit(i)
        THEN its[CHOOSE i \in 1..Len(its) : hit(i) /\ \A j \in 1..(i - 1) : ~hit(j)].name
        ELSE 0

\* is_current_item_being_edited (lines 771 to 773)
is_current_item_being_edited(name, cur) == name = cur

\* frappe.model.clear_doc as check_stock_availability calls it (line 819): the line leaves
\* the order.
clear_doc_keep(its, name) == its

clear_doc(its, name) == SelectSeq(its, LAMBDA r : r.name # name)

\* frappe.model.set_value(item_row.doctype, item_row.name, field, value) (lines 673, 675):
\* assigns the field of the named line; nothing to assign when the line is gone.
set_value(its, name, field, value) ==
    [i \in 1..Len(its) |->
        IF its[i].name = name THEN [its[i] EXCEPT ![field] = value] ELSE its[i]]

\* flt (lines 661 and 664) over the values an event carries
flt(value) == CASE value = "+1" -> 1 [] value = "0" -> 0 [] value = "3" -> 3

\* value * item_row.conversion_factor (lines 668 and 713)
Times(value, factor) == IF factor = NaN THEN NaN ELSE value * factor

\* available_qty < qty_needed (line 830), available_qty in halves; false against NaN
LessThanNeeded(available_qty, qty_needed) ==
    qty_needed # NaN /\ available_qty < 2 * qty_needed

\* The part of a call after the point x: what the order, the gate and the panel have
\* become by then.
At(its, count, cur, name, gates) ==
    [its |-> its, count |-> count, cur |-> cur, name |-> name, gates |-> gates]

Here == At(pos_items, freeze_count, current_item, next_name, {})

\* The call suspends at an await.
Suspend(c, call, x) ==
    /\ pos_items' = x.its
    /\ freeze_count' = x.count
    /\ current_item' = x.cur
    /\ next_name' = x.name
    /\ write_gate' = x.gates
    /\ calls' = [calls EXCEPT ![c] = call]

\* settle without the catch and the return of the finally block: what was thrown rejects
\* the promise.
settle_rethrow(outcome) ==
    IF outcome \in {"not_available", "not_enough", "serial_reserved", "call_failed"}
    THEN "rejected"
    ELSE "resolved"

\* catch (error) { console.log(error) } finally { ...; return item_row } (lines 729 to
\* 734): the return of the finally block resolves the promise whatever was thrown.
settle(outcome) == "resolved"

\* The call ends: the finally block (lines 731 to 734) opens the gate once.
Finish(c, call, x, outcome) ==
    Suspend(c, [call EXCEPT !.pc = "done", !.outcome = outcome,
                            !.promise = settle(outcome)],
            [x EXCEPT !.count = unfreeze(x.count)])

\* lines 672 to 683 up to the first await: the field write of an existing line
WriteField(c, call, x) ==
    IF is_current_item_being_edited(call.row, x.cur) \/ call.from_selector
    THEN Suspend(c, [call EXCEPT !.pc = "set_field"],
                 [x EXCEPT !.its = set_value(x.its, call.row, call.field, call.value),
                           !.gates = x.gates \cup {x.count}])
    ELSE Finish(c, call, x, "ok")

\* lines 717 to 727 up to the await of trigger_new_item_events
trigger_new_item_events(c, call, x) == Suspend(c, [call EXCEPT !.pc = "events"], x)

\* lines 706 to 715: add_child, then the availability check of the new line
AddChild(c, call, x, factor) ==
    LET item_row == [name |-> x.name, item_code |-> call.item.item_code,
                     qty |-> IF call.field = "qty" THEN call.value ELSE 0,
                     serial_no |-> call.item.serial_no,
                     price_list_rate |-> 0, conversion_factor |-> factor]
        y == [x EXCEPT !.its = Append(x.its, item_row), !.name = x.name + 1,
                       !.gates = x.gates \cup {x.count}]
        added == [call EXCEPT !.row = x.name]
    IN  IF call.field = "qty" /\ call.value # 0 /\ ~allow_negative_stock
        THEN Suspend(c, [added EXCEPT !.pc = "avail", !.item_code = call.item.item_code,
                                      !.qty_needed = Times(call.value, factor)], y)
        ELSE trigger_new_item_events(c, added, y)

\* price_not_set that lets every item through.
price_not_set_never(item) == FALSE

\* rate == undefined || rate == 0 (line 691)
price_not_set(item) == item.rate = 0

\* on_cart_update (lines 652 to 735) from its call to its first await.
on_cart_update(c, field, v, item, factor) ==
    LET x == [Here EXCEPT !.count = freeze(freeze_count)]
        name == get_item_from_frm(pos_items, item)
        item_row_exists == name # 0
        from_selector == field = "qty" /\ v = "+1"
        row == pos_items[RowIndex(pos_items, name)]
        value == IF from_selector
                 THEN (IF item_row_exists THEN row.qty ELSE 0) + flt(v)
                 ELSE flt(v)
        call == [NewCall EXCEPT !.promise = "pending",
                                !.field = field, !.value = value, !.item = item,
                                !.row = name, !.existed = item_row_exists,
                                !.from_selector = from_selector]
    IN  IF item_row_exists
        THEN IF field = "qty" /\ value > 0 /\ ~allow_negative_stock
             THEN Suspend(c, [call EXCEPT !.pc = "avail", !.item_code = row.item_code,
                                          !.qty_needed = Times(value, row.conversion_factor)],
                          x)
             ELSE WriteField(c, call, x)
        ELSE IF ~customer
             THEN \* raise_customer_selection_alert (lines 737 to 744) opens the gate itself
                  Finish(c, call, [x EXCEPT !.count = unfreeze(x.count)], "no_customer")
             ELSE IF price_not_set(item)
                  THEN Finish(c, call, x, "no_price")
                  ELSE IF item.serial_no # NoSerial
                       THEN Suspend(c, [call EXCEPT !.pc = "serial"], x)
                       ELSE AddChild(c, call, x, factor)

\* The operator clicks a tile of the item selector (lines 1249 to 1268).
ItemSelected(c) ==
    /\ freeze_count = 0
    /\ calls[c].pc = "new"
    /\ \A b \in 1..(c - 1) : calls[b].pc # "new"
    /\ \E item \in SelectorItems, factor \in NewRowFactors :
           on_cart_update(c, "qty", "+1", item, factor)
    /\ UNCHANGED <<scanner, selector, allow_negative_stock, stock_settings, item_stock_map,
                   reserved_serial_nos, customer>>

\* The operator changes the quantity in the detail form of the line being edited
\* (form_updated, lines 381 to 392).
FormUpdated(c) ==
    /\ freeze_count = 0
    /\ calls[c].pc = "new"
    /\ \A b \in 1..(c - 1) : calls[b].pc # "new"
    /\ RowIndex(pos_items, current_item) # 0
    /\ \E q \in FormQtys :
           /\ pos_items[RowIndex(pos_items, current_item)].qty # flt(q)
           /\ on_cart_update(c, "qty", q, FormItem(current_item), 1)
    /\ UNCHANGED <<scanner, selector, allow_negative_stock, stock_settings, item_stock_map,
                   reserved_serial_nos, customer>>

\* The operator clicks a line of the cart (cart_item_clicked, lines 348 to 351): the detail
\* form opens on it.  The cart shows a line once update_cart_html has run for it (line 719).
CartItemClicked ==
    /\ freeze_count = 0
    /\ \E i \in 1..Len(pos_items) :
           /\ pos_items[i].price_list_rate # 0
           /\ pos_items[i].name # current_item
           /\ current_item' = pos_items[i].name
    /\ write_gate' = {}
    /\ UNCHANGED <<scanner, selector, pos_items, freeze_count, allow_negative_stock, stock_settings,
                   item_stock_map, reserved_serial_nos, customer, calls, next_name>>

\* is_stock_item taking every item for a stock item.
is_stock_item_always(resp) == TRUE

\* const is_stock_item = resp[1] (line 806)
is_stock_item(resp) == resp.is_stock_item

\* check_stock_availability (lines 803 to 841) from the arrival of the message on, and
\* what on_cart_update does after it up to the next await.
check_stock_availability(c, resp) ==
    LET call == [calls[c] EXCEPT !.resp = resp]
        x == [Here EXCEPT !.count = unfreeze(freeze_count)]
        closed == [x EXCEPT !.count = freeze(x.count)]
        go(y) == IF call.existed
                 THEN WriteField(c, call, y)
                 ELSE trigger_new_item_events(c, call, y)
    IN  IF resp.is_negative_stock_allowed
        THEN go(x)
        ELSE IF ~(resp.available_qty > 0)
             THEN IF is_stock_item(resp)
                  THEN Finish(c, call,
                              [x EXCEPT !.its = clear_doc(x.its, call.row),
                                        !.gates = x.gates \cup {x.count}],
                              "not_available")
                  ELSE go(x)
             ELSE IF is_stock_item(resp)
                     /\ LessThanNeeded(resp.available_qty, call.qty_needed)
                  THEN Finish(c, call, x, "not_enough")
                  ELSE go(closed)

\* get_available_stock (lines 858 to 871): the callback of the call stores the message
\* under the item code (the session has one warehouse).
get_available_stock(c) == item_stock_map \cup {calls[c].item_code}

\* The availability message arrives.
AvailReturn(c) ==
    /\ calls[c].pc = "avail"
    /\ \E resp \in Responses : check_stock_availability(c, resp)
    /\ item_stock_map' = get_available_stock(c)
    /\ UNCHANGED <<scanner, selector, allow_negative_stock, stock_settings, reserved_serial_nos,
                   customer>>

\* The availability call fails: the await of line 804 throws.
AvailFail(c) ==
    /\ calls[c].pc = "avail"
    /\ Finish(c, calls[c], Here, "call_failed")
    /\ UNCHANGED <<scanner, selector, allow_negative_stock, stock_settings, item_stock_map,
                   reserved_serial_nos, customer>>

\* res.message.includes(serial_no) (line 848)
includes(message, serial_no) == serial_no \in message

\* check_serial_no_availablilty (lines 843 to 856) from the arrival of the list of
\* reserved serial numbers on, and lines 703 to 715 after it.
SerialReturn(c) ==
    /\ calls[c].pc = "serial"
    /\ \E factor \in NewRowFactors :
           IF includes(reserved_serial_nos, calls[c].item.serial_no)
           THEN Finish(c, calls[c], Here, "serial_reserved")
           ELSE AddChild(c, calls[c], Here, factor)
    /\ UNCHANGED <<scanner, selector, allow_negative_stock, stock_settings, item_stock_map,
                   reserved_serial_nos, customer>>

\* The reserved-serial call fails: the await of line 846 throws.
SerialFail(c) ==
    /\ calls[c].pc = "serial"
    /\ Finish(c, calls[c], Here, "call_failed")
    /\ UNCHANGED <<scanner, selector, allow_negative_stock, stock_settings, item_stock_map,
                   reserved_serial_nos, customer>>

\* A set_value of lines 673 to 681 settles.
SetValueDone(c) ==
    /\ \/ /\ calls[c].pc = "set_field"
          /\ IF calls[c].item.serial_no # NoSerial /\ calls[c].from_selector
             THEN LET i == RowIndex(pos_items, calls[c].row)
                      old == IF i = 0 THEN NoSerial ELSE pos_items[i].serial_no
                  IN  Suspend(c, [calls[c] EXCEPT !.pc = "set_serial"],
                              [Here EXCEPT
                                 !.its = set_value(pos_items, calls[c].row, "serial_no",
                                                   old \o <<NL>> \o calls[c].item.serial_no),
                                 !.gates = {freeze_count}])
             ELSE Finish(c, calls[c], Here, "ok")
       \/ /\ calls[c].pc = "set_serial"
          /\ Finish(c, calls[c], Here, "ok")
    /\ UNCHANGED <<scanner, selector, allow_negative_stock, stock_settings, item_stock_map,
                   reserved_serial_nos, customer>>

\* trigger_new_item_events (lines 798 to 801) settles: the item_code trigger has filled in
\* the line's price and conversion factor; then lines 719 to 727.
NewItemEventsDone(c) ==
    /\ calls[c].pc = "events"
    /\ LET name == calls[c].row
           present == RowIndex(pos_items, name) # 0
           filled == set_value(set_value(pos_items, name, "price_list_rate",
                                         calls[c].item.rate),
                               name, "conversion_factor", 1)
       IN  Finish(c, calls[c],
                  [Here EXCEPT !.its = filled,
                               !.gates = IF present THEN {freeze_count} ELSE {},
                               !.cur = IF current_item # 0 THEN name ELSE 0],
                  "ok")
    /\ UNCHANGED <<scanner, selector, allow_negative_stock, stock_settings, item_stock_map,
                   reserved_serial_nos, customer>>

\* The operator presses "remove" on the number pad of the detail form (update_item_field,
\* lines 873 to 884): remove_item_from_cart (lines 886 to 899) up to the then of its
\* set_value.
RemoveItem(c) ==
    /\ freeze_count = 0
    /\ calls[c].pc = "new"
    /\ \A b \in 1..(c - 1) : calls[b].pc # "new"
    /\ RowIndex(pos_items, current_item) # 0
    /\ Suspend(c, [NewCall EXCEPT !.pc = "remove", !.promise = "pending", !.field = "qty",
                                  !.row = current_item, !.existed = TRUE],
               [Here EXCEPT !.count = freeze(freeze_count),
                            !.its = set_value(pos_items, current_item, "qty", 0),
                            !.gates = {freeze(freeze_count)}])
    /\ UNCHANGED <<scanner, selector, allow_negative_stock, stock_settings, item_stock_map,
                   reserved_serial_nos, customer>>

\* The set_value of remove_item_from_cart settles: the then callback (lines 892 to 897)
\* removes the line, closes the detail form and opens the gate.
RemoveDone(c) ==
    /\ calls[c].pc = "remove"
    /\ Suspend(c, [calls[c] EXCEPT !.pc = "done", !.outcome = "removed",
                                   !.promise = "resolved"],
               [Here EXCEPT !.its = clear_doc(pos_items, calls[c].row),
                            !.gates = {freeze_count},
                            !.cur = 0,
                            !.count = unfreeze(freeze_count)])
    /\ UNCHANGED <<scanner, selector, allow_negative_stock, stock_settings, item_stock_map,
                   reserved_serial_nos, customer>>

\* The set_value of remove_item_from_cart is rejected: the catch of line 898 logs the
\* error and nothing else runs.
RemoveFail(c) ==
    /\ calls[c].pc = "remove"
    /\ Suspend(c, [calls[c] EXCEPT !.pc = "done", !.outcome = "write_failed",
                                   !.promise = "resolved"],
               Here)
    /\ UNCHANGED <<scanner, selector, allow_negative_stock, stock_settings, item_stock_map,
                   reserved_serial_nos, customer>>

\* The answer to the frappe.db.get_value of prepare_app_defaults (lines 138 to 140)
\* arrives: this.allow_negative_stock = flt(message.allow_negative_stock) || false.
\* The call is not awaited; until its answer the field is undefined.
SettingsFetched ==
    /\ ~stock_settings.fetched
    /\ stock_settings' = [stock_settings EXCEPT !.fetched = TRUE]
    /\ allow_negative_stock' = stock_settings.allow_negative_stock
    /\ write_gate' = {}
    /\ UNCHANGED <<scanner, selector, pos_items, freeze_count, item_stock_map, reserved_serial_nos,
                   customer, current_item, calls, next_name>>

(***************************************************************************)
(* The item selector's handlers (lines 1270 to 1278 and 1328 to 1381).     *)
(***************************************************************************)
\* add_filtered_item_to_cart (lines 1378 to 1381): the click on the tile shown raises
\* item_selected for it; set_search_value("") empties the field and triggers the input
\* handler, which starts the timer.
add_filtered_item_to_cart(its, search_term) ==
    /\ selected' = Append(selected, [item |-> its[1], search_value |-> search_value,
                                     search_term |-> search_term])
    /\ search_value' = ""
    /\ last_search' = TRUE

\* lines 1339 to 1345 and 1357 to 1363: this.items = items, render_item_list, and the
\* automatic add of a single result while the search field holds text.  The timer is
\* left as timer unless the add restarts it.
show_items(its, search_term, timer) ==
    /\ selector_items' = its
    /\ IF auto_add_item /\ search_value # "" /\ Len(its) = 1
       THEN add_filtered_item_to_cart(its, search_term)
       ELSE /\ last_search' = timer
            /\ UNCHANGED <<search_value, selected>>

\* The input handler of the search field (lines 1270 to 1278): the operator types or
\* clears the text, or the barcode reader's onScan sets it (lines 1238 to 1244).
SearchInput(term) ==
    /\ inputs_made < MaxInputs
    /\ term # search_value
    /\ search_value' = term
    /\ last_search' = TRUE
    /\ inputs_made' = inputs_made + 1
    /\ UNCHANGED <<scanner, cart, search_index, selector_items, auto_add_item, requests,
                   issued, selected>>

\* The timer of line 1272 fires: filter_items({ search_term: e.target.value }) up to
\* the get_items call (lines 1328 to 1351).
SearchTimer ==
    LET search_term == toLowerCase(search_value)
        memo == {e \in search_index : e.search_term = search_term}
    IN
    /\ last_search
    /\ IF search_term # "" /\ memo # {}
       THEN /\ issued' = [search_term |-> search_term, by |-> "memo", request |-> 0]
            /\ show_items((CHOOSE e \in memo : TRUE).items, search_term, FALSE)
            /\ UNCHANGED <<requests, freeze_count>>
       ELSE /\ \E r \in SearchSlots :
                  /\ requests[r].pc = "new"
                  /\ \A b \in 1..(r - 1) : requests[b].pc # "new"
                  /\ requests' = [requests EXCEPT
                                     ![r] = [pc |-> "sent", search_term |-> search_term]]
                  /\ issued' = [search_term |-> search_term, by |-> "request",
                                request |-> r]
            /\ freeze_count' = freeze(freeze_count)
            /\ last_search' = FALSE
            /\ UNCHANGED <<search_value, selector_items, selected>>
    /\ write_gate' = {}
    /\ UNCHANGED <<scanner, pos_items, allow_negative_stock, stock_settings, item_stock_map,
                   reserved_serial_nos, customer, current_item, calls, next_name,
                   search_index, auto_add_item, inputs_made>>

\* The answer to get_items call r arrives: the then callback of lines 1352 to 1364 and
\* the always callback; frappe.call opens the gate it closed.
SearchReturn(r) ==
    LET search_term == requests[r].search_term
        message == get_items(search_term)
    IN
    /\ requests[r].pc = "sent"
    /\ requests' = [requests EXCEPT ![r].pc = "answered"]
    /\ search_index' =
           IF search_term # "" /\ ~message.barcode
           THEN {e \in search_index : e.search_term # search_term}
                \cup {[search_term |-> search_term, items |-> message.items]}
           ELSE search_index
    /\ show_items(message.items, search_term, last_search)
    /\ freeze_count' = unfreeze(freeze_count)
    /\ write_gate' = {}
    /\ UNCHANGED <<scanner, pos_items, allow_negative_stock, stock_settings, item_stock_map,
                   reserved_serial_nos, customer, current_item, calls, next_name,
                   auto_add_item, issued, inputs_made>>

\* get_items call r fails: only the always callback runs (lines 1365 to 1367).
SearchFail(r) ==
    /\ requests[r].pc = "sent"
    /\ requests' = [requests EXCEPT ![r].pc = "failed"]
    /\ freeze_count' = unfreeze(freeze_count)
    /\ write_gate' = {}
    /\ UNCHANGED <<scanner, pos_items, allow_negative_stock, stock_settings, item_stock_map,
                   reserved_serial_nos, customer, current_item, calls, next_name,
                   search_value, last_search, search_index, selector_items, auto_add_item,
                   issued, selected, inputs_made>>

\* The selector shown with an empty order: whether items are added automatically comes
\* from the POS Profile (line 928).
SelectorInit ==
    /\ items = <<>>
    /\ last_scanned_warehouse = ""
    /\ has_items = FALSE
    /\ cfg = [prompt_qty |-> FALSE, dont_allow_new_row |-> FALSE, max_qty_field |-> FALSE,
              has_last_scanned_warehouse |-> FALSE]
    /\ flags = [trigger_from_barcode_scanner |-> FALSE, hide_serial_batch_dialog |-> FALSE]
    /\ scans = [s \in Slots |-> NewScan]
    /\ dialogs = [s \in Slots |-> NoDialog]
    /\ dialog = 0
    /\ remaining_qty = 0
    /\ CartIdle
    /\ search_value = ""
    /\ last_search = FALSE
    /\ search_index = {}
    /\ selector_items = <<>>
    /\ auto_add_item \in BOOLEAN
    /\ requests = [r \in SearchSlots |-> NewRequest]
    /\ issued = NotIssued
    /\ selected = <<>>
    /\ inputs_made = 0

SelectorNext ==
    \/ \E term \in Terms \cup {""} : SearchInput(term)
    \/ SearchTimer
    \/ \E r \in SearchSlots : SearchReturn(r)
    \/ \E r \in SearchSlots : SearchFail(r)

SelectorSpec == SelectorInit /\ [][SelectorNext]_vars

\* The state after prepare_app_defaults (lines 130 to 159) and make_app: the fetch of the
\* stock settings is under way, the selector and the cart are shown.
POSInit ==
    /\ items = <<>>
    /\ last_scanned_warehouse = ""
    /\ has_items = FALSE
    /\ cfg = [prompt_qty |-> FALSE, dont_allow_new_row |-> FALSE, max_qty_field |-> FALSE,
              has_last_scanned_warehouse |-> FALSE]
    /\ flags = [trigger_from_barcode_scanner |-> FALSE, hide_serial_batch_dialog |-> FALSE]
    /\ scans = [s \in Slots |-> NewScan]
    /\ dialogs = [s \in Slots |-> NoDialog]
    /\ dialog = 0
    /\ remaining_qty = 0
    /\ pos_items \in InitCarts
    /\ freeze_count = 0
    /\ allow_negative_stock = FALSE
    /\ stock_settings \in [allow_negative_stock : BOOLEAN, fetched : {FALSE}]
    /\ item_stock_map = {}
    /\ reserved_serial_nos \in SUBSET {SerialA, SerialB}
    /\ customer \in BOOLEAN
    /\ current_item = 0
    /\ calls = [c \in CartSlots |-> NewCall]
    /\ next_name = Len(pos_items) + 1
    /\ write_gate = {}
    /\ SelectorIdle

POSNext ==
    \/ \E c \in CartSlots : ItemSelected(c)
    \/ \E c \in CartSlots : FormUpdated(c)
    \/ CartItemClicked
    \/ \E c \in CartSlots : AvailReturn(c)
    \/ \E c \in CartSlots : AvailFail(c)
    \/ \E c \in CartSlots : SerialReturn(c)
    \/ \E c \in CartSlots : SerialFail(c)
    \/ \E c \in CartSlots : SetValueDone(c)
    \/ \E c \in CartSlots : NewItemEventsDone(c)
    \/ SettingsFetched
    \/ \E c \in CartSlots : RemoveItem(c)
    \/ \E c \in CartSlots : RemoveDone(c)
    \/ \E c \in CartSlots : RemoveFail(c)

POSSpec == POSInit /\ [][POSNext]_vars

(***************************************************************************)
(* Properties.                                                             *)
(***************************************************************************)
\* Scan s's API callback runs in this step and hands an item to update_table.
Matching(s) ==
    /\ scans[s].pc = "api"
    /\ scans'[s].pc # "api"
    /\ scans'[s].alert # "server_error"
    /\ Data(s).has_data
    /\ Data(s).warehouse = ""

\* The matching predicates as the specification lists them, for the scan `data`.
Satisfies(row, data) ==
    LET context == IF last_scanned_warehouse # "" THEN last_scanned_warehouse
                   ELSE data.default_warehouse
    IN /\ row.item_code = data.item_code
       /\ (data.batch_no # "" /\ "batch_no" \in TableFields
              => row.batch_no = "" \/ row.batch_no = data.batch_no)
       /\ (data.uom # "" => row.uom = data.uom)
       /\ (cfg.max_qty_field => row.qty < row.max_qty)
       /\ ~row.has_item_scanned
       /\ (cfg.has_last_scanned_warehouse /\ context # "" /\ row.warehouse # ""
              => row.warehouse = context)

Candidates(data) == {i \in 1..Len(items) : Satisfies(items[i], data)}
Placeholders == {i \in 1..Len(items) : items[i].item_code = ""}
Least(S) == CHOOSE i \in S : \A j \in S : i <= j
ListHas(list, x) == \E i \in DOMAIN list : list[i] = x

\* C1: whenever at least one line satisfies all matching predicates, the matcher
\* returns the first such line in entry order (the scan goes on with that line, or
\* is rejected because that line already holds the scanned serial), and a line with
\* a non-empty item_code that the matcher returns satisfies every predicate.
C1_FirstMatchingLine ==
    [][\A s \in Slots :
          Matching(s) =>
            LET data == Data(s)
                first == Least(Candidates(data))
                got == scans'[s].matched
            IN /\ Candidates(data) # {} =>
                    /\ Len(items') = Len(items)
                    /\ \/ scans'[s].pc # "done" /\ got = first /\ scans'[s].row = first
                       \/ /\ scans'[s].alert = "dup_serial"
                          /\ Includes(items[first].serial_no, data.serial_no)
               /\ (got # 0 /\ items[got].item_code # "") => got \in Candidates(data)
      ]_vars

\* C1 witness: a scan was matched to the second line, an earlier line of the same
\* item having failed a predicate.
C1_Witness ==
    \E s \in Slots :
        /\ scans[s].pc \notin {"new", "api", "done"}
        /\ scans[s].matched = 2
        /\ items[1].item_code = Data(s).item_code

\* C2: when no line satisfies all matching predicates the matcher returns the first
\* line whose item_code is empty if there is one, and otherwise no line (a line is
\* appended, or the scan is refused under dont_allow_new_row); an unfilled line is
\* returned only when no line satisfies the predicates.
C2_PlaceholderFallback ==
    [][\A s \in Slots :
          Matching(s) =>
            LET data == Data(s)
                got == scans'[s].matched
            IN /\ (Candidates(data) = {} /\ Placeholders # {}) =>
                    /\ Len(items') = Len(items)
                    /\ \/ /\ scans'[s].pc # "done"
                          /\ got = Least(Placeholders)
                          /\ scans'[s].row = got
                          /\ scans'[s].is_new_row
                       \/ /\ scans'[s].alert = "dup_serial"
                          /\ Includes(items[Least(Placeholders)].serial_no, data.serial_no)
               /\ (Candidates(data) = {} /\ Placeholders = {}) =>
                    /\ got = 0
                    /\ \/ scans'[s].alert = "max_qty" /\ items' = items
                       \/ /\ Len(items') = Len(items) + 1
                          /\ scans'[s].row = Len(items) + 1
               /\ (got # 0 /\ items[got].item_code = "") => Candidates(data) = {}
      ]_vars

\* C2 witness: a scan was given the unfilled line of an order none of whose lines
\* matched it.
C2_Witness ==
    \E s \in Slots :
        /\ scans[s].pc \notin {"new", "api", "done"}
        /\ scans[s].is_new_row
        /\ scans[s].matched = 1
        /\ Len(items) = 2
        /\ items[2].item_code = "B"

NoRepeat(list) == \A i, j \in DOMAIN list : i # j => list[i] # list[j]

\* C3: no order line's serial-number list contains the same serial number twice.
C3_NoDuplicateSerial ==
    \A i \in 1..Len(items) : NoRepeat(SerialList(items[i].serial_no))

\* No scan is between its API call and the end of its chain.
Quiescent == \A s \in Slots : scans[s].pc \in {"new", "done"}

\* C4: with a max-quantity field configured, once the scans made have completed
\* every line with a max quantity set has quantity <= that max quantity.
C4_QtyWithinMax ==
    (cfg.max_qty_field /\ Quiescent) =>
        \A i \in 1..Len(items) : items[i].max_qty > 0 => items[i].qty <= items[i].max_qty

\* A scan that has been matched to a line and has not finished writing to it.
Mutating(s) == scans[s].pc \notin {"new", "api", "done"}

\* C5: the matching and line-mutation steps of two scans never interleave: no scan
\* is matched while another scan is between its matching and its last write.
C5_NoInterleaving ==
    \A s, t \in Slots : (Mutating(s) /\ Mutating(t)) => s = t

WriteRank(f) ==
    CASE f = "uom" -> 1
      [] f = "serial_no" -> 2
      [] f = "batch_no" -> 3
      [] f = "barcode" -> 4
      [] f = "warehouse" -> 5
      [] OTHER -> 6

\* C6: a scan's writes to its line are made in the order UOM, serial number, batch
\* number, barcode, warehouse, quantity, and each write has completed before the
\* next begins.
C6_WriteOrder ==
    \A s \in Slots :
        /\ \A i, j \in DOMAIN scans[s].log :
              i < j => WriteRank(scans[s].log[i]) < WriteRank(scans[s].log[j])
        /\ Cardinality(scans[s].inflight) <= 1

\* C7: when the scanned serial number is one of the serial numbers of the line the
\* matcher selects, update_table rejects the scan and changes nothing: no line is
\* added and no field of any line changes.
C7_DuplicateSerialRejected ==
    [][\A s \in Slots :
          Matching(s) =>
            LET data == Data(s)
                target == IF Candidates(data) # {} THEN Least(Candidates(data))
                          ELSE IF Placeholders # {} THEN Least(Placeholders)
                          ELSE 0
            IN (/\ target # 0
                /\ data.serial_no # NoSerial
                /\ ListHas(SerialList(items[target].serial_no), data.serial_no))
               => /\ items' = items
                  /\ scans'[s].result = "rejected"
                  /\ scans'[s].alert = "dup_serial"
                  /\ UNCHANGED <<dialogs, dialog, last_scanned_warehouse, has_items>>
      ]_vars

\* C7 witness: a scan of serial 12 was rejected as a duplicate on an order with a
\* line that lists serial 12.
C7_Witness ==
    /\ \E s \in Slots : scans[s].alert = "dup_serial"
    /\ \E i \in 1..Len(items) : ListHas(SerialList(items[i].serial_no), SerialA)

\* The quantity of scan s's line is written in this step by set_item's increment.
IncrementStep(s) == scans[s].pc # "qty" /\ scans'[s].pc = "qty"

\* The Update action of scan s's dialog runs in this step.
DialogConfirm(s) ==
    scans[s].pc = "dialog" /\ scans'[s].pc \in {"d_batch_no", "d_barcode", "d_serial_no"}

Deltas == {1} \cup PromptValues

\* C8 as stated: whenever a scan that matched an existing line writes the line's
\* quantity, the quantity increases by the scan delta and no line is created.
C8_Original ==
    [][\A s \in Slots :
          ((IncrementStep(s) \/ DialogConfirm(s)) /\ ~scans'[s].is_new_row) =>
            LET r == scans'[s].row
            IN /\ \E v \in Deltas : items'[r].qty = items[r].qty + v
               /\ Len(items') = Len(items)
      ]_vars

\* C8 amended: a scan that matches an existing line and is not rejected as a
\* duplicate serial creates no line when it is matched, and outside the scan dialog
\* its quantity write adds the scan delta (1, or the prompted value) to that exact
\* line and changes no other line.
C8_IncrementExistingLine ==
    [][\A s \in Slots :
          /\ (Matching(s) /\ Candidates(Data(s)) # {}) =>
                /\ Len(items') = Len(items)
                /\ scans'[s].pc # "done" =>
                      /\ scans'[s].row = Least(Candidates(Data(s)))
                      /\ ~scans'[s].is_new_row
          /\ (IncrementStep(s) /\ ~scans'[s].is_new_row) =>
                LET r == scans'[s].row
                    delta == items'[r].qty - items[r].qty
                IN /\ IF scans[s].pc = "prompt" THEN delta \in PromptValues ELSE delta = 1
                   /\ Len(items') = Len(items)
                   /\ \A i \in 1..Len(items) : i # r => items'[i] = items[i]
                   /\ items'[r] = [items[r] EXCEPT !.qty = items[r].qty + delta,
                                                   !.item_code = Data(s).item_code]
      ]_vars

\* C8 witness: the line of item A with quantity 1 and max quantity 2 was matched by
\* a scan that has completed, and its quantity is 2.
C8_Witness ==
    /\ \E s \in Slots : scans[s].alert = "increased"
    /\ Len(items) = 1
    /\ items[1].item_code = "A" /\ items[1].qty = 2 /\ items[1].max_qty = 2

\* C9 as stated: for every scan that no existing line satisfies, a new line is
\* appended.
C9_Original ==
    [][\A s \in Slots :
          (Matching(s) /\ Candidates(Data(s)) = {}) => Len(items') = Len(items) + 1
      ]_vars

\* The scanned value that a write of update_table's chain stores in field f.
Scanned(f, old, data) ==
    CASE f = "uom" -> data.uom
      [] f = "serial_no" -> IF old = NoSerial THEN data.serial_no
                            ELSE old \o <<NL>> \o data.serial_no
      [] f = "batch_no" -> data.batch_no
      [] f = "barcode" -> data.barcode
      [] OTHER -> last_scanned_warehouse

\* C9 amended: for a scan that no line satisfies, when no line has an empty
\* item_code and dont_allow_new_row is not set, one empty line with quantity zero is
\* appended and becomes the scan's line; each write of the scan then stores the
\* scanned value (UOM, serial, batch, barcode) on that line, and its quantity write
\* stores the item code and adds the scan delta to the line's quantity.
C9_NewLineAppended ==
    [][\A s \in Slots :
          /\ (/\ Matching(s)
              /\ Candidates(Data(s)) = {}
              /\ Placeholders = {}
              /\ ~cfg.dont_allow_new_row) =>
                /\ Len(items') = Len(items) + 1
                /\ SubSeq(items', 1, Len(items)) = items
                /\ scans'[s].row = Len(items) + 1
                /\ scans'[s].is_new_row
                /\ Len(scans'[s].log) = 1
                /\ LET f == scans'[s].log[1]
                       new == items'[Len(items) + 1]
                   IN IF f = "qty"
                      THEN new = [EmptyRow EXCEPT !.item_code = Data(s).item_code,
                                                  !.qty = 1]
                      ELSE new = [EmptyRow EXCEPT ![f] = Scanned(f, NoSerial, Data(s))]
          /\ (/\ scans[s].row # 0
              /\ scans[s].matched = 0
              /\ Len(scans'[s].log) = Len(scans[s].log) + 1) =>
                LET r == scans[s].row
                    f == scans'[s].log[Len(scans'[s].log)]
                IN IF f = "qty"
                   THEN /\ items'[r].item_code = Data(s).item_code
                        /\ items'[r].qty - items[r].qty \in Deltas
                   ELSE items'[r] = [items[r] EXCEPT ![f] = Scanned(f, items[r][f], Data(s))]
      ]_vars

\* C9 witness: a completed scan of serial 12 for an item with no line left a new
\* line of item A with serial list [12] and quantity 1.
C9_Witness ==
    /\ \E s \in Slots : scans[s].alert = "added"
    /\ \E i \in 1..Len(items) :
          items[i] = [EmptyRow EXCEPT !.item_code = "A", !.serial_no = SerialA, !.qty = 1]

\* C10: when the matcher returns no line and dont_allow_new_row is set, update_table
\* rejects the scan with the maximum-quantity warning and the order is unchanged.
C10_RowLimitRejected ==
    [][\A s \in Slots :
          (/\ Matching(s)
           /\ Candidates(Data(s)) = {}
           /\ Placeholders = {}
           /\ cfg.dont_allow_new_row) =>
             /\ items' = items
             /\ scans'[s].result = "rejected"
             /\ scans'[s].alert = "max_qty"
             /\ UNCHANGED <<dialogs, dialog, last_scanned_warehouse, has_items>>
      ]_vars

\* C10 witness: a scan was refused with the maximum-quantity warning while a line of
\* its item is at its max quantity.
C10_Witness ==
    /\ \E s \in Slots : scans[s].alert = "max_qty"
    /\ \E i \in 1..Len(items) :
          /\ items[i].item_code = "A"
          /\ items[i].max_qty > 0
          /\ items[i].qty = items[i].max_qty

\* The Update chain of scan s ends in this step (add_child_for_remaining_qty and
\* clean_up have run).
DialogChainEnds(s) ==
    scans[s].pc \in {"d_batch_no", "d_barcode", "d_serial_no"} /\ scans'[s].pc = "done"

\* C11: when a scan dialog was confirmed with a scanned quantity c strictly less
\* than the requested quantity, the end of its Update chain leaves the source line
\* with quantity c and has appended exactly one sibling line with quantity
\* requested - c that carries no batch, serial or barcode.
C11_SplitInvariant ==
    [][\A s \in Slots :
          (DialogChainEnds(s) /\ scans[s].confirmed < scans[s].requested) =>
             LET r == scans[s].row
                 n == Len(items)
             IN /\ Len(items') = n + 1
                /\ items'[r].qty = scans[s].confirmed
                /\ items'[n + 1].qty = scans[s].requested - scans[s].confirmed
                /\ items'[n + 1].batch_no = ""
                /\ items'[n + 1].serial_no = NoSerial
                /\ items'[n + 1].barcode = ""
      ]_vars

\* C14: a scan whose pipeline has run to its end, so that no callback of it is left
\* to run, has had process_scan's promise resolved or rejected.
C14_PromiseSettled ==
    \A s \in Slots : scans[s].pc = "done" => scans[s].result \in {"resolved", "rejected"}

\* The scan API answered scan s in this step.
Classified(s) ==
    /\ scans[s].pc = "api"
    /\ scans'[s].pc # "api"
    /\ scans'[s].alert # "server_error"

\* C17: a scan classified as a warehouse, on a document with a
\* last_scanned_warehouse field, sets last_scanned_warehouse to the scanned
\* warehouse and resolves; it is matched to no line, writes nothing, opens no dialog
\* and leaves every line unchanged.
C17_WarehouseScan ==
    [][\A s \in Slots :
          (Classified(s) /\ Data(s).warehouse # "" /\ cfg.has_last_scanned_warehouse) =>
             /\ last_scanned_warehouse' = Data(s).warehouse
             /\ items' = items
             /\ scans'[s].pc = "done"
             /\ scans'[s].result = "resolved"
             /\ scans'[s].row = 0 /\ scans'[s].matched = 0 /\ scans'[s].log = <<>>
             /\ UNCHANGED <<has_items, dialogs, dialog, remaining_qty>>
      ]_vars

\* C17 witness: a warehouse scan has resolved and the context is warehouse W1.
C17_Witness ==
    /\ last_scanned_warehouse = "W1"
    /\ \E s \in Slots : scans[s].alert = "warehouse_set" /\ scans[s].result = "resolved"

\* Scan s starts a write of field f in this step.
Writes(s, f) ==
    /\ Len(scans'[s].log) = Len(scans[s].log) + 1
    /\ scans'[s].log[Len(scans'[s].log)] = f

\* C18: the warehouse write of an item scan stores the warehouse context on a line
\* that has no warehouse, and leaves the warehouse of a line that already has one
\* as it is.
C18_WarehouseInherited ==
    [][\A s \in Slots :
          Writes(s, "warehouse") =>
             LET r == scans'[s].row
                 old == IF r <= Len(items) THEN items[r].warehouse ELSE ""
             IN items'[r].warehouse = IF old # "" THEN old ELSE last_scanned_warehouse
      ]_vars

\* The lines that satisfy the matching predicates when the warehouse predicate is
\* taken against `context`.
CandidatesUnder(data, context) ==
    {i \in 1..Len(items) :
        /\ Satisfies([items[i] EXCEPT !.warehouse = ""], data)
        /\ (cfg.has_last_scanned_warehouse /\ context # "" /\ items[i].warehouse # ""
               => items[i].warehouse = context)}

BatchPair(data, i, j) ==
    /\ i # j
    /\ \A k \in 1..Len(items) : items[k].item_code = data.item_code <=> k \in {i, j}
    /\ items[i].uom = items[j].uom
    /\ items[i].batch_no = ""
    /\ items[j].batch_no \notin {"", data.batch_no}

\* C20 as stated: given such a pair of lines, a scan carrying a batch is always
\* matched to the line with no batch.
C20_Original ==
    [][\A s \in Slots : \A i, j \in 1..Len(items) :
          (Matching(s) /\ Data(s).batch_no # "" /\ BatchPair(Data(s), i, j)) =>
             scans'[s].matched = i
      ]_vars

\* C20 amended: given such a pair of lines, a scan carrying a batch is never matched
\* to the line with the other batch, whatever the entry order; it is matched to the
\* line with no batch when that line satisfies the remaining predicates (UOM,
\* quantity below the maximum, not scanned, warehouse).
C20_UnsetBatchPreferred ==
    [][\A s \in Slots : \A i, j \in 1..Len(items) :
          (Matching(s) /\ Data(s).batch_no # "" /\ BatchPair(Data(s), i, j)) =>
             /\ scans'[s].matched # j
             /\ scans'[s].row # j
             /\ Satisfies(items[i], Data(s)) =>
                   \/ scans'[s].matched = i /\ scans'[s].row = i
                   \/ scans'[s].alert = "dup_serial"
      ]_vars

\* C20 witness: a scan of batch LOT1 was matched to the second line, which had no
\* batch, the first line of the same item holding batch LOT2.
C20_Witness ==
    \E s \in Slots :
        /\ scans[s].pc \notin {"new", "api", "done"}
        /\ Data(s).batch_no = "LOT1"
        /\ scans[s].matched = 2
        /\ items[1].item_code = "A" /\ items[1].batch_no = "LOT2"

(***************************************************************************)
(* Properties of the point-of-sale cart (specification POSSpec).           *)
(***************************************************************************)
\* The availability message of call c arrives in this step.
Answered(c) ==
    /\ calls[c].pc = "avail"
    /\ calls'[c].pc # "avail"
    /\ calls'[c].outcome # "call_failed"

\* The names of the lines of its.
Names(its) == { its[i].name : i \in 1..Len(its) }

\* C12: with negative stock disallowed, when the availability message for a stock item
\* reports an available quantity of 0 or less, the edit or add is aborted and the line that
\* was being created or edited is removed from the order: no line of that attempt remains,
\* and the other lines are as they were.
C12_NotAvailableRemovesLine ==
    [][\A c \in CartSlots :
          ( /\ Answered(c)
            /\ ~allow_negative_stock
            /\ calls'[c].resp.is_stock_item
            /\ ~calls'[c].resp.is_negative_stock_allowed
            /\ calls'[c].resp.available_qty <= 0 )
          => /\ calls'[c].pc = "done"
             /\ calls'[c].outcome = "not_available"
             /\ calls[c].row \notin Names(pos_items')
             /\ pos_items' = SelectSeq(pos_items, LAMBDA r : r.name # calls[c].row)
      ]_vars

\* An add and an edit both ended as not available, and the order holds neither line.
C12_Witness ==
    \E c, d \in CartSlots :
        /\ calls[c].outcome = "not_available" /\ ~calls[c].existed
        /\ calls[d].outcome = "not_available" /\ calls[d].existed
        /\ calls[c].row \notin Names(pos_items)
        /\ calls[d].row \notin Names(pos_items)

\* C13: when the availability message reports a shortfall for a stock item (an available
\* quantity above 0 and below the quantity needed), the quantity change is not committed
\* and the order's lines are as before the event: an existing line keeps its quantity, and
\* after a click on an item not yet in the cart the order holds no line for it.
C13_ShortfallRetainsLines ==
    [][\A c \in CartSlots :
          ( /\ Answered(c)
            /\ ~allow_negative_stock
            /\ calls'[c].resp.is_stock_item
            /\ ~calls'[c].resp.is_negative_stock_allowed
            /\ calls'[c].resp.available_qty > 0
            /\ calls'[c].resp.available_qty < 2 * calls[c].value )
          => IF calls[c].existed
             THEN pos_items' = pos_items
             ELSE calls[c].row \notin Names(pos_items')
      ]_vars

\* C15: a failure of the availability call or of the reserved-serial call during a cart
\* event leaves the order's lines exactly as they were before the event: no line of the
\* event is left added.
C15_FailureLeavesLines ==
    [][\A c \in CartSlots :
          ( /\ calls[c].pc \in {"avail", "serial"}
            /\ calls'[c].outcome = "call_failed" )
          => /\ pos_items' = pos_items
             /\ ~calls[c].existed => calls[c].row \notin Names(pos_items')
      ]_vars

\* C16: every mutation of the order's lines that on_cart_update makes (adding a line,
\* writing a field, removing a line) happens while the gate is closed (freeze_count > 0).
C16_GateHeldAtWrites == 0 \notin write_gate

\* A line that a confirmed scan dialog has resolved.
Resolved(row) == row.item_code # "" /\ row.has_item_scanned

\* C21: once a line with a non-empty item_code has has_item_scanned set, no scan selects
\* it afterwards, and nothing of the line changes except through a scan that had selected
\* it before the flag was set.
C21_ScannedLineNotSelected ==
    [][ /\ \A s \in Slots :
              (scans[s].row = 0 /\ scans'[s].row \in 1..Len(items))
              => ~Resolved(items[scans'[s].row])
        /\ \A i \in 1..Len(items) :
              (Resolved(items[i]) /\ items'[i] # items[i])
              => \E s \in Slots : scans[s].row = i
      ]_vars

\* A resolved line of the scanned item precedes the line the next scan of that item has
\* selected, and the scan that resolved it has ended.
C21_Witness ==
    \E s \in Slots, i \in 1..Len(items) :
        /\ Resolved(items[i])
        /\ scans[s].pc = "dialog"
        /\ scans[s].row > i
        /\ items[i].item_code = Data(s).item_code
        /\ \A t \in Slots \ {s} : scans[t].pc = "done"

\* C22: on empty or whitespace-only input process_scan returns at once with a no-match
\* outcome (its promise rejected) and makes no call to the scan API.
C22_BlankInputNoCall ==
    [][\A s \in Slots :
          (scans[s].pc = "new" /\ scans'[s].pc # "new" /\ scans'[s].input \in BlankInputs)
          => /\ scans'[s].pc = "done"
             /\ scans'[s].result = "rejected"
      ]_vars

\* C23: when the scan API returns no data, an empty object, or a warehouse for a document
\* without a last_scanned_warehouse field, process_scan rejects with the "cannot find"
\* message, and neither the order's lines nor last_scanned_warehouse change.
C23_NoMatchRejected ==
    [][\A s \in Slots :
          ( /\ scans[s].pc = "api"
            /\ scans'[s].pc # "api"
            /\ scans'[s].alert # "server_error"
            /\ \/ ~Data(s).has_data
               \/ (Data(s).warehouse # "" /\ ~cfg.has_last_scanned_warehouse) )
          => /\ scans'[s].result = "rejected"
             /\ scans'[s].alert = "not_found"
             /\ items' = items
             /\ last_scanned_warehouse' = last_scanned_warehouse
      ]_vars

\* On a form without the warehouse field every scan was answered and rejected as not
\* found, and the order still holds its lines.
C23_Witness ==
    /\ ~cfg.has_last_scanned_warehouse
    /\ items # <<>>
    /\ \A s \in Slots : scans[s].result = "rejected" /\ scans[s].alert = "not_found"

\* C24: if Stock Settings allows negative stock, no cart event issues an availability
\* query, also while the fetch of the settings is still outstanding.
C24_NoQueryWhenNegativeAllowed ==
    stock_settings.allow_negative_stock => \A c \in CartSlots : calls[c].pc # "avail"

\* C25: for an item that is not a stock item check_stock_availability never fails and never
\* removes the line, whatever the available quantity and the quantity needed: the call goes
\* on to its writes, and the order keeps the line.
C25_NonStockAlwaysPasses ==
    [][\A c \in CartSlots :
          (Answered(c) /\ ~calls'[c].resp.is_stock_item)
          => /\ calls'[c].outcome \in {"none", "ok"}
             /\ Names(pos_items') = Names(pos_items)
      ]_vars

\* Two checks of items that are not stock items have passed: one with nothing available,
\* one with less available than needed; both lines are in the order.
C25_Witness ==
    \E c, d \in CartSlots :
        /\ calls[c].outcome = "ok" /\ calls[c].qty_needed # 0
        /\ calls[c].resp = [available_qty |-> 0, is_stock_item |-> FALSE,
                            is_negative_stock_allowed |-> FALSE]
        /\ calls[d].outcome = "ok" /\ calls[d].qty_needed >= 1
        /\ calls[d].resp = [available_qty |-> 1, is_stock_item |-> FALSE,
                            is_negative_stock_allowed |-> FALSE]
        /\ {calls[c].row, calls[d].row} \subseteq Names(pos_items)

\* C26: once item_stock_map holds an availability message for an item code (and the
\* session's warehouse), no later check_stock_availability for that item issues a query.
C26_SnapshotReused ==
    [][\A c \in CartSlots :
          (calls[c].pc # "avail" /\ calls'[c].pc = "avail")
          => calls'[c].item_code \notin item_stock_map
      ]_vars

\* C27: no line is appended to the order while its customer is absent: an item click or a
\* scan for an item not yet in the order aborts before any line is created.
C27_NoLineWithoutCustomer ==
    [][(Len(items') > Len(items) \/ Len(pos_items') > Len(pos_items)) => customer]_vars

\* Call c starts in this step, for a selector item without a price that the order has no
\* line for.
UnpricedItemSelected(c) ==
    /\ calls[c].pc = "new"
    /\ calls'[c].pc # "new"
    /\ calls'[c].from_selector
    /\ ~calls'[c].existed
    /\ calls'[c].item.rate = 0

\* C28 as stated: selecting an item that is not in the order and has no price aborts with
\* the price alert and changes nothing.
C28_Original ==
    [][\A c \in CartSlots :
          UnpricedItemSelected(c)
          => /\ calls'[c].pc = "done"
             /\ calls'[c].outcome = "no_price"
             /\ pos_items' = pos_items
      ]_vars

\* C28: selecting an item that is not in the order and has no price aborts at once, without
\* a query to the availability or the reserved-serial service and with every line as it
\* was; the alert is the price alert when the order has a customer, and the customer
\* alert when it has none.
C28_NoPriceAborts ==
    [][\A c \in CartSlots :
          UnpricedItemSelected(c)
          => /\ calls'[c].pc = "done"
             /\ calls'[c].outcome = IF customer THEN "no_price" ELSE "no_customer"
             /\ pos_items' = pos_items
             /\ calls'[c].row = 0
      ]_vars

\* A click on the item without a price ended with the price alert; the order holds the
\* line it had.
C28_Witness ==
    /\ \E c \in CartSlots : calls[c].outcome = "no_price" /\ calls[c].item.item_code = "F"
    /\ pos_items = <<CartLine>>

\* C29: no failure raised inside on_cart_update reaches the caller: the promise of a call
\* is never rejected, and it is resolved once the call has ended, whatever ended it.
C29_PromiseNeverRejects ==
    \A c \in CartSlots :
        /\ calls[c].promise # "rejected"
        /\ calls[c].pc = "done" => calls[c].promise = "resolved"
        /\ calls[c].pc \notin {"new", "done"} => calls[c].promise = "pending"

\* A call that ended on a stock failure and a call whose collaborator failed have both
\* resolved.
C29_Witness ==
    \E c, d \in CartSlots :
        /\ calls[c].outcome \in {"not_available", "not_enough", "serial_reserved"}
        /\ calls[c].promise = "resolved"
        /\ calls[d].outcome = "call_failed"
        /\ calls[d].promise = "resolved"

\* serial_no is one of the serial numbers of the newline-separated text.
HoldsSerial(text, serial_no) ==
    \E i, j \in 1..Len(text) :
        /\ SubSeq(text, i, j) = serial_no
        /\ (i = 1 \/ text[i - 1] = NL)
        /\ (j = Len(text) \/ text[j + 1] = NL)

\* C30: a serial number the reserved-serial service reports as reserved never ends up in
\* the serial list of an order line, neither on a new line nor on an existing one.
C30_NoReservedSerialOnLine ==
    \A i \in 1..Len(pos_items), serial_no \in reserved_serial_nos :
        ~HoldsSerial(pos_items[i].serial_no, serial_no)

\* C31: after a completed edit that sets an existing line's quantity to 0 (on_cart_update
\* with field qty and value 0, or remove_item_from_cart) the line is no longer in the order.
C31_ZeroQuantityRemoves ==
    \A c \in CartSlots :
        ( /\ calls[c].pc = "done"
          /\ calls[c].outcome \in {"ok", "removed"}
          /\ calls[c].existed
          /\ calls[c].field = "qty"
          /\ calls[c].value = 0 )
        => calls[c].row \notin Names(pos_items)

\* C32: closing the scan dialog without confirming commits nothing: the target line's
\* quantity and has_item_scanned flag are unchanged, no line is created, and the writes
\* made before the dialog opened stay.
C32_DialogClosedCommitsNothing ==
    [][\A s \in Slots :
          (scans[s].pc = "dialog" /\ scans'[s].alert = "closed") => items' = items
      ]_vars

\* The only scan made wrote its batch to a line and its dialog was closed: the line holds
\* the batch and is not marked as scanned.
C32_Witness ==
    \E s \in Slots, i \in 1..Len(items) :
        /\ scans[s].alert = "closed"
        /\ \A t \in Slots \ {s} : scans[t].pc = "new"
        /\ items[i].batch_no = "LOT1"
        /\ ~items[i].has_item_scanned

\* C33: in dialog mode the quantity the operator confirms with Update is never greater
\* than the quantity the dialog asked for.
C33_ConfirmedWithinRequested ==
    \A s \in Slots :
        scans[s].pc \in {"d_batch_no", "d_barcode", "d_serial_no"}
        => scans[s].confirmed <= scans[s].requested

\* C34: whenever no scan is in flight, frappe.flags.trigger_from_barcode_scanner and
\* frappe.flags.hide_serial_batch_dialog are both false.
C34_FlagsClearWhenIdle ==
    Quiescent =>
        /\ ~flags.trigger_from_barcode_scanner
        /\ ~flags.hide_serial_batch_dialog

\* The entries of a line's serial list.
SerialSet(s) == {SerialList(s)[k] : k \in 1..Len(SerialList(s))}

\* C35: a scan is rejected as a duplicate serial only if the scanned serial number
\* is one of the entries of the target line's serial list.
C35_DuplicateOnlyIfListed ==
    [][\A s \in Slots :
          (scans[s].pc = "api" /\ scans'[s].alert = "dup_serial") =>
             LET row == get_row_to_modify_on_scan(Data(s))
             IN row # 0 /\ Data(s).serial_no \in SerialSet(items[row].serial_no)
      ]_vars

\* C36: once the scans made have completed, a serial number is in the serial list
\* of at most one line of the order.
C36_SerialOnOneLine ==
    Quiescent =>
        \A i, j \in 1..Len(items) :
            i # j => SerialSet(items[i].serial_no) \cap SerialSet(items[j].serial_no) = {}

\* A server call or field write of cart call c settles, with an answer or a failure.
Settles(c) ==
    \/ AvailReturn(c) \/ AvailFail(c)
    \/ SerialReturn(c) \/ SerialFail(c)
    \/ SetValueDone(c) \/ NewItemEventsDone(c)
    \/ RemoveDone(c) \/ RemoveFail(c)

\* The point of sale under the browser's scheduling: an outstanding request or field
\* write is eventually answered or fails, and its continuation then runs.
POSFairSpec == POSInit /\ [][POSNext]_vars /\ WF_vars(\E c \in CartSlots : Settles(c))

\* C37: every closing of the gate by on_cart_update or remove_item_from_cart is
\* eventually followed by its release.
C37_GateEventuallyReleased == (freeze_count > 0) ~> (freeze_count = 0)

\* No get_items call of the selector is outstanding.
SearchesCompleted == \A r \in SearchSlots : requests[r].pc # "sent"

\* The search issued last has been served, from the memo or by its answer.
LastSearchServed ==
    \/ issued.by = "memo"
    \/ issued.by = "request" /\ requests[issued.request].pc = "answered"

\* The item list held is the answer to the search term issued last.
ShowsLastSearch ==
    (SearchesCompleted /\ LastSearchServed)
        => selector_items = get_items(issued.search_term).items

\* C38: once all outstanding searches have completed the selector's items are the
\* result of the search term issued last, and an automatic add happens only with
\* auto-add enabled and only for the single result of the term then in the search field.
C38_LatestSearchWins ==
    [][/\ ShowsLastSearch'
       /\ selected' # selected =>
             /\ auto_add_item
             /\ get_items(toLowerCase(search_value)).items
                    = <<selected'[Len(selected')].item>>
      ]_vars

====
